---- MODULE Spec2Model ----
(***************************************************************************)
(* A model of the crypto news researcher: the feed fetcher, the content    *)
(* extractor, the article analyzer, the pipeline orchestrator, the SQLite  *)
(* content store and the query engine of src/crypto_news_analyzer.py.      *)
(*                                                                         *)
(* Text is a sequence of one-character strings.                            *)
(***************************************************************************)
EXTENDS Integers, Sequences, FiniteSets, Bags, TLC

VARIABLES
    store,      \* the rows of table news_articles
    pc,         \* per thread: position inside fetch_and_analyze_news
    srcIdx,     \* per thread: index of the source being processed
    articles,   \* per thread: the list fetch_news_from_rss returned
    artIdx,     \* per thread: index of the article being processed
    cycles,     \* per thread: number of cycles started
    last,       \* log record of the most recent operation
    leaked,     \* the finished operations whose connection is still open
    page,       \* content extractor: the HTTP response being extracted
    extracted,  \* content extractor: the returned content
    feed,       \* feed fetcher: the parsed feed
    fetched     \* feed fetcher: the returned result

vars == <<store, pc, srcIdx, articles, artIdx, cycles, last, leaked,
          page, extracted, feed, fetched>>

pipelineVars == <<store, pc, srcIdx, articles, artIdx, cycles, last, leaked>>

\* Python's None where an element is expected (select_one found nothing).
NoElement == [found |-> FALSE, text |-> << >>]

EmptyText == << >>

Min(a, b) == IF a < b THEN a ELSE b

\* A text of n copies of the character ch.
Repeat(ch, n) == [i \in 1..n |-> ch]

----------------------------------------------------------------------------
(* Bounds of the model *)

\* Length of a long element text: one more than the truncation limit.
LongLen == 4001

\* Length of a short element text.
ShortLen == 2

\* Largest number of entries of a feed given to the feed fetcher alone.
MaxEntries == 11

\* Number of cycles each thread may start.
MaxCycles == 1

----------------------------------------------------------------------------
(* Content extractor: extract_article_content *)

\* content[:4000]
MaxContentLen == 4000

\* The selector list of the extraction loop, in priority order.
Selectors == <<"article", ".article-content", ".post-content", "main", ".content">>

\* The character the model gives to the text of each part of a page.
SelectorChar == <<"a", "b", "c", "d", "e">>
RestChar == "r"
NoiseChar == "s"

TextKinds == {"empty", "short", "long"}

T_ETF == <<"E", "T", "F">>

TextOfKind(kind, ch) ==
    CASE kind = "empty" -> EmptyText
      [] kind = "short" -> Repeat(ch, ShortLen)
      [] kind = "long"  -> Repeat(ch, LongLen)
      [] kind = "news"  -> T_ETF

\* The responses requests.get can give: a network failure, or a document in
\* which each selector matches no element ("none") or an element with a text,
\* with text outside these elements (rest) and inside script/style/nav/
\* footer/header elements (noise).
PageShapes ==
    [status : {"ok"},
     elems  : [1..Len(Selectors) -> {"none"} \cup TextKinds],
     rest   : TextKinds,
     noise  : {"empty", "short"}]

NetErrorPage ==
    [status |-> "neterr", elems |-> [i \in 1..Len(Selectors) |-> "none"],
     rest |-> "empty", noise |-> "empty"]

\* BeautifulSoup(response.content, "html.parser")
BeautifulSoup(resp) ==
    [elems |-> [i \in 1..Len(Selectors) |->
                    IF resp.elems[i] = "none" THEN NoElement
                    ELSE [found |-> TRUE,
                          text  |-> TextOfKind(resp.elems[i], SelectorChar[i])]],
     rest  |-> TextOfKind(resp.rest, RestChar),
     noise |-> TextOfKind(resp.noise, NoiseChar)]

\* for script in soup([...]): script.decompose()
Decompose(soup) == [soup EXCEPT !.noise = EmptyText]

\* soup.select_one(selector): the first matching element, or None
SelectOne(soup, i) == soup.elems[i]

RECURSIVE ConcatElems(_, _)
ConcatElems(soup, i) ==
    IF i > Len(Selectors) THEN EmptyText
    ELSE soup.elems[i].text \o ConcatElems(soup, i + 1)

\* soup.get_text(strip=True): the text of the whole document
GetText(soup) == ConcatElems(soup, 1) \o soup.rest \o soup.noise

\* The selector loop: the first selector that matches an element ends the loop
\* (a Tag is always truthy), whatever its text.
RECURSIVE SelectorLoopSkipEmpty(_, _)
SelectorLoopSkipEmpty(soup, i) ==
    IF i > Len(Selectors) THEN EmptyText
    ELSE LET element == SelectOne(soup, i)
         IN  IF element.found /\ element.text # EmptyText THEN element.text
             ELSE SelectorLoopSkipEmpty(soup, i + 1)

RECURSIVE SelectorLoop(_, _)
SelectorLoop(soup, i) ==
    IF i > Len(Selectors) THEN EmptyText
    ELSE LET element == SelectOne(soup, i)
         IN  IF element.found THEN element.text      \* get_text; break
             ELSE SelectorLoop(soup, i + 1)

\* content[:4000] if len(content) > 4000 else content
Truncate(content) ==
    IF Len(content) > MaxContentLen THEN SubSeq(content, 1, MaxContentLen)
    ELSE content

\* if not content: content = soup.get_text(strip=True); return content[:4000]
ContentOrPage(soup, content) ==
    Truncate(IF content = EmptyText THEN GetText(soup) ELSE content)

ExtractArticleContentSkipEmpty(resp) ==
    IF resp.status # "ok" THEN EmptyText
    ELSE LET soup == Decompose(BeautifulSoup(resp))
         IN  ContentOrPage(soup, SelectorLoopSkipEmpty(soup, 1))

ExtractArticleContent(resp) ==
    IF resp.status # "ok" THEN EmptyText        \* except Exception: return ""
    ELSE LET soup == Decompose(BeautifulSoup(resp))
         IN  ContentOrPage(soup, SelectorLoop(soup, 1))

----------------------------------------------------------------------------
(* Feed fetcher: fetch_news_from_rss *)

\* feed.entries[:10]
EntryLimit == 10

\* The configured sources, in insertion order.
NewsSources == <<"decrypt", "theblock", "cryptonews">>

\* A page whose <article> element carries a short text, with script noise.
GoodPage ==
    [status |-> "ok",
     elems  |-> [i \in 1..Len(Selectors) |-> IF i = 1 THEN "short" ELSE "none"],
     rest   |-> "short", noise |-> "short"]

\* A page without any text at all.
BlankPage ==
    [status |-> "ok", elems |-> [i \in 1..Len(Selectors) |-> "none"],
     rest |-> "empty", noise |-> "short"]

\* entry.published_parsed: 0 stands for an absent or empty value.
PublishedDate(entry) == IF entry.published > 0 THEN entry.published ELSE 0

\* The loop over feed.entries[:10]. Reading entry.title or entry.link of an
\* entry that lacks it raises AttributeError, which leaves the loop with the
\* articles appended so far.
RECURSIVE EntryLoop(_, _, _, _)
EntryLoop(source_name, entries, i, acc) ==
    IF i > Len(entries) THEN [exc |-> FALSE, articles |-> acc]
    ELSE LET entry == entries[i]
         IN  IF ~entry.hasTitle \/ ~entry.hasLink
             THEN [exc |-> TRUE, articles |-> acc]
             ELSE EntryLoop(source_name, entries, i + 1,
                     Append(acc,
                        [title          |-> entry.title,
                         url            |-> entry.link,
                         content        |-> ExtractArticleContent(entry.resp),
                         source         |-> source_name,
                         published_date |-> PublishedDate(entry)]))

\* The body of the try block: feedparser.parse, then the entry loop.
FetchBody(source_name, fd) ==
    IF ~fd.ok THEN [exc |-> TRUE, articles |-> << >>]
    ELSE EntryLoop(source_name,
                   SubSeq(fd.entries, 1, Min(Len(fd.entries), EntryLimit)),
                   1, << >>)

FetchNewsFromRssClearOnError(source_name, fd) ==
    LET r == FetchBody(source_name, fd)
    IN  [raised |-> FALSE, articles |-> IF r.exc THEN << >> ELSE r.articles]

FetchNewsFromRssNoLimit(source_name, fd) ==
    LET r == IF ~fd.ok THEN [exc |-> TRUE, articles |-> << >>]
             ELSE EntryLoop(source_name, fd.entries, 1, << >>)
    IN  [raised |-> FALSE, articles |-> r.articles]

\* except Exception: log; return articles
FetchNewsFromRss(source_name, fd) ==
    LET r == FetchBody(source_name, fd)
    IN  [raised |-> FALSE, articles |-> r.articles]

----------------------------------------------------------------------------
(* JSON texts: json.dumps and json.loads *)

K_summary == <<"s", "u", "m", "m", "a", "r", "y">>
K_sentiment == <<"s", "e", "n", "t", "i", "m", "e", "n", "t">>
K_key_topics == <<"k", "e", "y", "_", "t", "o", "p", "i", "c", "s">>
K_market_implications ==
    <<"m", "a", "r", "k", "e", "t", "_", "i", "m", "p", "l", "i", "c", "a", "t",
      "i", "o", "n", "s">>
K_raw_analysis == <<"r", "a", "w", "_", "a", "n", "a", "l", "y", "s", "i", "s">>
K_error == <<"e", "r", "r", "o", "r">>
AnalysisFailed ==
    <<"A", "n", "a", "l", "y", "s", "i", "s", " ", "f", "a", "i", "l", "e", "d",
      ":", " ">>
T_Bitcoin == <<"B", "i", "t", "c", "o", "i", "n">>
T_Ether == <<"E", "t", "h", "e", "r">>
T_Bullish == <<"B", "u", "l", "l", "i", "s", "h">>
T_timeout == <<"t", "i", "m", "e", "o", "u", "t">>
T_hold == <<"h", "o", "l", "d">>
T_up == <<"u", "p">>

\* Python values that json handles: str, list, dict.
JStr(s) == [t |-> "str", s |-> s]
JList(items) == [t |-> "list", items |-> items]
JDict(pairs) == [t |-> "dict", pairs |-> pairs]

RECURSIVE JsonDumps(_), DumpItems(_, _), DumpPairs(_, _)
JsonDumps(v) ==
    CASE v.t = "str"  -> <<"\"">> \o v.s \o <<"\"">>
      [] v.t = "list" -> <<"[">> \o DumpItems(v.items, 1) \o <<"]">>
      [] v.t = "dict" -> <<"{">> \o DumpPairs(v.pairs, 1) \o <<"}">>

DumpItems(items, i) ==
    IF i > Len(items) THEN EmptyText
    ELSE (IF i > 1 THEN <<",", " ">> ELSE EmptyText)
         \o JsonDumps(items[i]) \o DumpItems(items, i + 1)

DumpPairs(pairs, i) ==
    IF i > Len(pairs) THEN EmptyText
    ELSE (IF i > 1 THEN <<",", " ">> ELSE EmptyText)
         \o <<"\"">> \o pairs[i].k \o <<"\"", ":", " ">>
         \o JsonDumps(pairs[i].v) \o DumpPairs(pairs, i + 1)

\* The JSON documents the model's LLM produces.
ObjectReply ==
    JDict(<<[k |-> K_summary, v |-> JStr(T_up)],
            [k |-> K_sentiment, v |-> JStr(T_Bullish)],
            [k |-> K_key_topics, v |-> JList(<<JStr(T_ETF)>>)],
            [k |-> K_market_implications, v |-> JStr(T_hold)]>>)

ListReply == JList(<<JStr(T_hold)>>)

ErrorAnalysis(msg) == JDict(<<[k |-> K_error, v |-> JStr(AnalysisFailed \o msg)]>>)

JsonDocuments == {ObjectReply, ListReply}

\* json.loads(text): the document whose text this is; raises on other text.
JsonLoads(text) ==
    IF \E v \in JsonDocuments : JsonDumps(v) = text
    THEN [ok |-> TRUE, value |-> CHOOSE v \in JsonDocuments : JsonDumps(v) = text]
    ELSE [ok |-> FALSE, value |-> JStr(EmptyText)]

\* dict.get(key, default)
DictGet(d, key, default) ==
    IF \E i \in 1..Len(d.pairs) : d.pairs[i].k = key
    THEN d.pairs[CHOOSE i \in 1..Len(d.pairs) : d.pairs[i].k = key].v
    ELSE default

----------------------------------------------------------------------------
(* Article analyzer: analyze_article_with_llm *)

\* What the chat-completion request can do: fail, or return a text that is a
\* JSON object, a JSON list, or no JSON at all.
LlmOutcomes ==
    {[status |-> "fail", text |-> T_timeout],
     [status |-> "ok", text |-> JsonDumps(ObjectReply)],
     [status |-> "ok", text |-> JsonDumps(ListReply)],
     [status |-> "ok", text |-> T_hold]}

AnalyzeArticleWithLlmReraise(article, llm) ==
    IF llm.status = "fail"
    THEN [raised |-> TRUE, analysis |-> JDict(<< >>)]
    ELSE LET parsed == JsonLoads(llm.text)
         IN  [raised   |-> FALSE,
              analysis |-> IF parsed.ok THEN parsed.value
                           ELSE JDict(<<[k |-> K_raw_analysis, v |-> JStr(llm.text)]>>)]

AnalyzeArticleWithLlm(article, llm) ==
    IF llm.status = "fail"
    THEN \* except Exception as e: return {"error": f"Analysis failed: {str(e)}"}
         [raised |-> FALSE, analysis |-> ErrorAnalysis(llm.text)]
    ELSE LET parsed == JsonLoads(llm.text)
         IN  [raised   |-> FALSE,
              analysis |-> IF parsed.ok THEN parsed.value
                           ELSE JDict(<<[k |-> K_raw_analysis, v |-> JStr(llm.text)]>>)]

----------------------------------------------------------------------------
(* Content store: table news_articles and save_article_to_db *)

\* The columns of CREATE TABLE news_articles.
NewsArticlesColumns ==
    {"id", "title", "url", "content", "summary", "sentiment", "impact",
     "key_topics", "related_coins", "category", "source", "published_date",
     "fetched_date", "analysis_raw"}

\* What the database can do to an operation: work, fail when the connection
\* is opened, or fail when the statement is executed.
DbOutcomes == {"ok", "openfail", "execfail"}

\* The rows of a table, in a bag, that carry this url.
RowsWithUrl(st, url) == {r \in BagToSet(st) : r.url = url}

CountUrl(st, url) ==
    LET rows == RowsWithUrl(st, url)
    IN  BagCardinality([r \in rows |-> st[r]])

\* INSERT without conflict resolution on a table without the UNIQUE index.
InsertAppend(st, row) == st (+) SetToBag({row})

\* INSERT OR REPLACE with url UNIQUE: the rows in conflict are deleted, then
\* the new row is inserted.
InsertOrReplace(st, row) ==
    LET kept == {r \in BagToSet(st) : r.url # row.url}
    IN  [r \in kept |-> st[r]] (+) SetToBag({row})

\* The values bound to the statement; a value sqlite3 cannot bind raises.
RowOf(article, analysis) ==
    [title          |-> article.title,
     url            |-> article.url,
     content        |-> article.content,
     summary        |-> DictGet(analysis, K_summary, JStr(EmptyText)).s,
     sentiment      |-> DictGet(analysis, K_sentiment, JStr(EmptyText)).s,
     key_topics     |-> JsonDumps(DictGet(analysis, K_key_topics, JList(<< >>))),
     source         |-> article.source,
     published_date |-> article.published_date,
     analysis_raw   |-> JsonDumps(analysis)]

Bindable(analysis) ==
    /\ DictGet(analysis, K_summary, JStr(EmptyText)).t = "str"
    /\ DictGet(analysis, K_sentiment, JStr(EmptyText)).t = "str"

SaveArticleToDb(st, article, analysis, db) ==
    IF db = "openfail"
    THEN \* sqlite3.connect is outside the try block
         [raised |-> TRUE, committed |-> FALSE, store |-> st, open |-> FALSE]
    ELSE IF analysis.t # "dict" \/ ~Bindable(analysis) \/ db = "execfail"
    THEN \* except Exception: logger.error(...); finally: conn.close()
         [raised |-> FALSE, committed |-> FALSE, store |-> st, open |-> FALSE]
    ELSE \* finally: conn.close()
         [raised |-> FALSE, committed |-> TRUE, open |-> FALSE,
          store |-> InsertOrReplace(st, RowOf(article, analysis))]

\* init_database: connect, two CREATE TABLE IF NOT EXISTS, commit, close, with
\* no handler: a statement that fails leaves the function before conn.close().
InitDatabase(db) ==
    IF db = "openfail" THEN [raised |-> TRUE, open |-> FALSE]
    ELSE IF db = "execfail" THEN [raised |-> TRUE, open |-> TRUE]
    ELSE [raised |-> FALSE, open |-> FALSE]

\* The sources of the rows of the table.
SourcesOf(st) == {r.source : r \in BagToSet(st)}

\* get_database_stats: connect, three SELECTs, close, with no handler. The
\* model has one calendar day, so every row counts as fetched today.
GetDatabaseStats(st, db) ==
    IF db = "openfail"
    THEN [raised |-> TRUE, open |-> FALSE, stats |-> << >>]
    ELSE IF db = "execfail"
    THEN [raised |-> TRUE, open |-> TRUE, stats |-> << >>]
    ELSE [raised |-> FALSE, open |-> FALSE,
          stats  |-> [total_articles |-> BagCardinality(st),
                      articles_today |-> BagCardinality(st),
                      articles_by_source |->
                         [src \in SourcesOf(st) |->
                            BagCardinality([r \in {x \in BagToSet(st) : x.source = src}
                                              |-> st[r]])]]]

----------------------------------------------------------------------------
(* Query engine: query_database *)

\* LIMIT 10
QueryLimit == 10

NoArticlesMsg == "I couldn't find any relevant crypto news articles for your query."

ErrorPrefix == "Sorry, I encountered an error while processing your query: "

\* A returned text: a fixed beginning followed by an interpolated rest.
FString(prefix, rest) == [prefix |-> prefix, rest |-> rest]

Q_bitcoin_etf == <<"b", "i", "t", "c", "o", "i", "n", " ", "e", "t", "f">>
Q_Solana == <<"S", "o", "l", "a", "n", "a">>

LowerChar(c) ==
    CASE c = "B" -> "b" [] c = "E" -> "e" [] c = "T" -> "t" [] c = "F" -> "f"
      [] c = "S" -> "s" [] c = "A" -> "a" [] OTHER -> c

\* str.lower() and SQL LOWER()
Lower(text) == [i \in 1..Len(text) |-> LowerChar(text[i])]

\* str.split(): the maximal runs of characters other than whitespace
RECURSIVE SplitFrom(_, _, _, _)
SplitFrom(text, i, word, acc) ==
    IF i > Len(text) THEN (IF word = EmptyText THEN acc ELSE Append(acc, word))
    ELSE IF text[i] = " "
    THEN SplitFrom(text, i + 1, EmptyText,
                   IF word = EmptyText THEN acc ELSE Append(acc, word))
    ELSE SplitFrom(text, i + 1, Append(word, text[i]), acc)

Split(text) == SplitFrom(text, 1, EmptyText, << >>)

\* value LIKE '%term%'
Contains(text, term) ==
    \E i \in 1..(Len(text) - Len(term) + 1) :
        SubSeq(text, i, i + Len(term) - 1) = term

\* ORDER BY published_date DESC LIMIT n
RECURSIVE OrderByPublishedDesc(_, _)
OrderByPublishedDesc(rows, n) ==
    IF rows = {} \/ n = 0 THEN << >>
    ELSE LET first == CHOOSE r \in rows :
                          \A o \in rows : o.published_date <= r.published_date
         IN  <<first>> \o OrderByPublishedDesc(rows \ {first}, n - 1)

\* cursor.execute(query, params); cursor.fetchall(). A statement that names a
\* column the table does not have fails when it is prepared.
ExecuteSelect(st, search_terms) ==
    LET selected == {"title", "url", "summary", "sentiment", "key_topics",
                     "source", "published_date", "analysis"}
        searched == IF search_terms # << >> THEN {"title", "content", "analysis"}
                    ELSE {}
        unknown  == (selected \cup searched) \ NewsArticlesColumns
        matches(r) == \A k \in 1..Len(search_terms) :
                         \E col \in searched : Contains(Lower(r[col]), search_terms[k])
    IN  IF unknown # {}
        THEN [exc |-> TRUE,
              msg |-> "no such column: " \o (CHOOSE col \in unknown : TRUE),
              rows |-> << >>]
        ELSE [exc |-> FALSE, msg |-> "",
              rows |-> OrderByPublishedDesc({r \in BagToSet(st) : matches(r)},
                                            QueryLimit)]

\* What the chat-completion request of the query path can do.
QueryLlmOutcomes ==
    {[status |-> "fail", text |-> "timeout"], [status |-> "ok", text |-> "answer"]}

\* The body of the try block of query_database.
QueryBody(st, user_query, db, llm) ==
    IF db = "openfail"
    THEN [exc |-> TRUE, msg |-> "unable to open database file", open |-> FALSE,
          value |-> FString("", ""), llmCalled |-> FALSE, context |-> << >>]
    ELSE IF db = "execfail"
    THEN [exc |-> TRUE, msg |-> "database is locked", open |-> TRUE,
          value |-> FString("", ""), llmCalled |-> FALSE, context |-> << >>]
    ELSE LET res == ExecuteSelect(st, Split(Lower(user_query)))
         IN  IF res.exc
             THEN \* cursor.execute raised: conn.close() is not reached
                  [exc |-> TRUE, msg |-> res.msg, value |-> FString("", ""),
                   open |-> TRUE, llmCalled |-> FALSE, context |-> << >>]
             ELSE IF res.rows = << >>
             THEN [exc |-> FALSE, msg |-> "", value |-> FString(NoArticlesMsg, ""),
                   open |-> FALSE, llmCalled |-> FALSE, context |-> << >>]
             ELSE IF llm.status = "fail"
             THEN [exc |-> TRUE, msg |-> llm.text, value |-> FString("", ""),
                   open |-> FALSE, llmCalled |-> TRUE, context |-> res.rows]
             ELSE [exc |-> FALSE, msg |-> "", value |-> FString("", llm.text),
                   open |-> FALSE, llmCalled |-> TRUE, context |-> res.rows]

QueryDatabaseNoCatch(st, user_query, db, llm) ==
    LET r == QueryBody(st, user_query, db, llm)
    IN  [raised |-> r.exc, value |-> r.value, open |-> r.open,
         llmCalled |-> r.llmCalled, context |-> r.context]

\* except Exception as e: return f"Sorry, ... your query: {str(e)}"
QueryDatabase(st, user_query, db, llm) ==
    LET r == QueryBody(st, user_query, db, llm)
    IN  [raised    |-> FALSE,
         value     |-> IF r.exc THEN FString(ErrorPrefix, r.msg) ELSE r.value,
         llmCalled |-> r.llmCalled,
         context   |-> r.context,
         open      |-> r.open]

----------------------------------------------------------------------------
(* Pipeline orchestrator: fetch_and_analyze_news *)

\* The body of the loop over the articles of one source.
ProcessArticleNoContentCheck(st, article, llm, db) ==
    LET a == AnalyzeArticleWithLlm(article, llm)
        r == SaveArticleToDb(st, article, a.analysis, db)
    IN  [llmCalled |-> TRUE, saveCalled |-> TRUE, raised |-> r.raised,
         committed |-> r.committed, store |-> r.store, analysis |-> a.analysis,
         open |-> r.open]

ProcessArticle(st, article, llm, db) ==
    IF article.content = EmptyText          \* if article["content"]:
    THEN [llmCalled |-> FALSE, saveCalled |-> FALSE, raised |-> FALSE,
          committed |-> FALSE, store |-> st, analysis |-> JDict(<< >>),
          open |-> FALSE]
    ELSE LET a == AnalyzeArticleWithLlm(article, llm)
         IN  IF a.raised
             THEN [llmCalled |-> TRUE, saveCalled |-> FALSE, raised |-> TRUE,
                   committed |-> FALSE, store |-> st, analysis |-> a.analysis,
                   open |-> FALSE]
             ELSE LET r == SaveArticleToDb(st, article, a.analysis, db)
                  IN  [llmCalled |-> TRUE, saveCalled |-> TRUE,
                       raised |-> r.raised, committed |-> r.committed,
                       store |-> r.store, analysis |-> a.analysis,
                       open |-> r.open]

\* The operations with a connection left open, once operation op has ended
\* with its connection open or closed.
Leave(left, op, open) == IF open THEN left \cup {op} ELSE left

\* Where the two loops stand once article i - 1 of source s is done.
Advance(s, arts, i) ==
    IF i <= Len(arts)
    THEN [pc |-> "article", srcIdx |-> s, articles |-> arts, artIdx |-> i]
    ELSE IF s < Len(NewsSources)
    THEN [pc |-> "fetch", srcIdx |-> s + 1, articles |-> << >>, artIdx |-> 0]
    ELSE [pc |-> "end", srcIdx |-> 0, articles |-> << >>, artIdx |-> 0]

----------------------------------------------------------------------------
(* Specification of the content extractor alone *)

\* The scheduler thread of start_scheduler and the thread of the manual fetch.
Threads == {"background", "manual"}

\* A feed that could not be fetched or parsed.
NoFeed == [ok |-> FALSE, entries |-> << >>]

InitPipelineIdle ==
    /\ store = EmptyBag
    /\ pc = [t \in Threads |-> "idle"]
    /\ srcIdx = [t \in Threads |-> 0]
    /\ articles = [t \in Threads |-> << >>]
    /\ artIdx = [t \in Threads |-> 0]
    /\ cycles = [t \in Threads |-> 0]
    /\ last = [op |-> "none"]
    /\ leaked = {}

InitExtract ==
    /\ InitPipelineIdle
    /\ page \in PageShapes \cup {NetErrorPage}
    /\ extracted = [done |-> FALSE]
    /\ feed = NoFeed
    /\ fetched = [done |-> FALSE]

ExtractStep ==
    /\ ~extracted.done
    /\ extracted' = [done |-> TRUE, content |-> ExtractArticleContent(page)]
    /\ UNCHANGED <<pipelineVars, page, feed, fetched>>

NextExtract == ExtractStep

SpecExtract == InitExtract /\ [][NextExtract]_vars

----------------------------------------------------------------------------
(* Specification of the feed fetcher alone *)

\* Entry i of a generated feed: its own link and title; the entry at index
\* `bad` lacks its title or its link; pages alternate between a readable page
\* and a network failure.
FeedEntry(i, bad, lacks) ==
    [hasTitle  |-> ~(i = bad /\ lacks = "title"),
     title     |-> Repeat("t", 1 + (i % 2)),
     hasLink   |-> ~(i = bad /\ lacks = "link"),
     link      |-> i,
     published |-> i % 3,
     resp      |-> IF i % 2 = 1 THEN GoodPage ELSE NetErrorPage]

Feeds ==
    {[ok |-> ok, entries |-> [i \in 1..n |-> FeedEntry(i, bad, lacks)]] :
        ok \in BOOLEAN, n \in 0..MaxEntries, bad \in 0..MaxEntries,
        lacks \in {"title", "link"}}

InitFetch ==
    /\ InitPipelineIdle
    /\ page = NetErrorPage
    /\ extracted = [done |-> FALSE]
    /\ feed \in Feeds
    /\ fetched = [done |-> FALSE]

FetchStep ==
    /\ ~fetched.done
    /\ \E source_name \in {NewsSources[i] : i \in 1..Len(NewsSources)} :
          fetched' = [done   |-> TRUE,
                      source |-> source_name,
                      result |-> FetchNewsFromRss(source_name, feed)]
    /\ UNCHANGED <<pipelineVars, page, extracted, feed>>

NextFetch == FetchStep

SpecFetch == InitFetch /\ [][NextFetch]_vars

----------------------------------------------------------------------------
(* Specification of the pipeline and the store *)

\* A page whose <article> element carries the text "ETF".
NewsPage ==
    [status |-> "ok",
     elems  |-> [i \in 1..Len(Selectors) |-> IF i = 1 THEN "news" ELSE "none"],
     rest   |-> "short", noise |-> "short"]

Entry(title, link, published, resp) ==
    [hasTitle |-> TRUE, title |-> title, hasLink |-> TRUE, link |-> link,
     published |-> published, resp |-> resp]

NoLinkEntry(title) ==
    [hasTitle |-> TRUE, title |-> title, hasLink |-> FALSE, link |-> 0,
     published |-> 0, resp |-> NetErrorPage]

\* What the feed of each source can be when a cycle fetches it. Links are
\* numbers; a source serves its own links.
PipelineFeeds(source_name) ==
    CASE source_name = "decrypt" ->
            {NoFeed,
             [ok |-> TRUE, entries |-> <<Entry(T_Bitcoin, 1, 2, NewsPage)>>],
             [ok |-> TRUE, entries |-> <<Entry(T_Ether, 1, 2, GoodPage)>>]}
      [] source_name = "theblock" ->
            {[ok |-> TRUE, entries |-> <<Entry(T_Ether, 2, 1, GoodPage),
                                        Entry(T_Ether, 3, 0, NetErrorPage)>>]}
      [] source_name = "cryptonews" ->
            {[ok |-> TRUE, entries |-> << >>],
             [ok |-> TRUE, entries |-> <<Entry(T_Bitcoin, 4, 1, BlankPage),
                                        NoLinkEntry(T_Bitcoin),
                                        Entry(T_Bitcoin, 5, 2, GoodPage)>>]}

Init ==
    /\ InitPipelineIdle
    /\ page = NetErrorPage
    /\ extracted = [done |-> FALSE]
    /\ feed = NoFeed
    /\ fetched = [done |-> FALSE]

Move(t, to) ==
    /\ pc' = [pc EXCEPT ![t] = to.pc]
    /\ srcIdx' = [srcIdx EXCEPT ![t] = to.srcIdx]
    /\ articles' = [articles EXCEPT ![t] = to.articles]
    /\ artIdx' = [artIdx EXCEPT ![t] = to.artIdx]

\* logger.info("Starting news fetch and analysis cycle")
StartCycle(t) ==
    /\ pc[t] = "idle"
    /\ cycles[t] < MaxCycles
    /\ cycles' = [cycles EXCEPT ![t] = @ + 1]
    /\ Move(t, [pc |-> "fetch", srcIdx |-> 1, articles |-> << >>, artIdx |-> 0])
    /\ last' = [op |-> "start", thread |-> t]
    /\ UNCHANGED <<store, leaked, page, extracted, feed, fetched>>

\* articles = self.fetch_news_from_rss(source_name, rss_url)
FetchSource(t) ==
    /\ pc[t] = "fetch"
    /\ \E fd \in PipelineFeeds(NewsSources[srcIdx[t]]) :
          LET r == FetchNewsFromRss(NewsSources[srcIdx[t]], fd)
          IN  /\ Move(t, IF r.raised
                         THEN [pc |-> "raised", srcIdx |-> srcIdx[t],
                               articles |-> << >>, artIdx |-> 0]
                         ELSE Advance(srcIdx[t], r.articles, 1))
              /\ last' = [op |-> "fetch", thread |-> t, raised |-> r.raised,
                          feedFailed |-> ~fd.ok]
    /\ UNCHANGED <<store, leaked, cycles, page, extracted, feed, fetched>>

\* The log record of one iteration of the article loop.
ArticleRecord(t, st, article, index, llm, db, r) ==
    [op           |-> "article",
     thread       |-> t,
     url          |-> article.url,
     index        |-> index,
     emptyContent |-> article.content = EmptyText,
     llmFailed    |-> r.llmCalled /\ llm.status = "fail",
     dbOutcome    |-> IF r.saveCalled THEN db ELSE "unused",
     llmCalled    |-> r.llmCalled,
     saveCalled   |-> r.saveCalled,
     raised       |-> r.raised,
     committed    |-> r.committed,
     errorFlagged |-> r.llmCalled /\ r.analysis.t = "dict"
                         /\ DictGet(r.analysis, K_error, JStr(EmptyText)).s # EmptyText,
     article      |-> IF r.committed THEN article ELSE << >>,
     analysis     |-> IF r.committed THEN r.analysis ELSE << >>,
     before       |-> CountUrl(st, article.url),
     rowsBefore   |-> BagCardinality(st)]

\* One iteration of the loop over the articles of the source.
ArticleStep(t) ==
    /\ pc[t] = "article"
    /\ \E llm \in LlmOutcomes, db \in DbOutcomes :
          LET article == articles[t][artIdx[t]]
              r == ProcessArticle(store, article, llm, db)
          IN  /\ store' = r.store
              /\ leaked' = Leave(leaked, "save", r.open)
              /\ Move(t, IF r.raised
                         THEN [pc |-> "raised", srcIdx |-> srcIdx[t],
                               articles |-> articles[t], artIdx |-> artIdx[t]]
                         ELSE Advance(srcIdx[t], articles[t], artIdx[t] + 1))
              /\ last' = ArticleRecord(t, store, article, artIdx[t], llm, db, r)
    /\ UNCHANGED <<cycles, page, extracted, feed, fetched>>

\* logger.info("News fetch and analysis cycle completed")
CompleteCycle(t) ==
    /\ pc[t] = "end"
    /\ Move(t, [pc |-> "idle", srcIdx |-> 0, articles |-> << >>, artIdx |-> 0])
    /\ last' = [op |-> "completed", thread |-> t]
    /\ UNCHANGED <<store, leaked, cycles, page, extracted, feed, fetched>>

Next ==
    \/ \E t \in Threads : StartCycle(t)
    \/ \E t \in Threads : FetchSource(t)
    \/ \E t \in Threads : ArticleStep(t)
    \/ \E t \in Threads : CompleteCycle(t)

Spec == Init /\ [][Next]_vars

----------------------------------------------------------------------------
(* Specification of the query engine over the stores that saves produce *)

Queries == {Q_bitcoin_etf, Q_Solana, EmptyText}

\* The articles saved ahead of the queries.
StoredArticles ==
    {[title |-> T_Bitcoin, url |-> 1, content |-> T_ETF, source |-> "decrypt",
      published_date |-> 2],
     [title |-> T_Ether, url |-> 1, content |-> Repeat("a", ShortLen),
      source |-> "decrypt", published_date |-> 2],
     [title |-> T_Ether, url |-> 2, content |-> T_Bitcoin, source |-> "theblock",
      published_date |-> 1]}

\* A call of save_article_to_db with the analysis of the article.
SaveStep ==
    /\ \E article \in StoredArticles, llm \in LlmOutcomes :
          LET a == AnalyzeArticleWithLlm(article, llm)
              r == SaveArticleToDb(store, article, a.analysis, "ok")
          IN  /\ store' = r.store
              /\ leaked' = Leave(leaked, "save", r.open)
              /\ last' = [op |-> "save", committed |-> r.committed]
    /\ UNCHANGED <<pc, srcIdx, articles, artIdx, cycles,
                   page, extracted, feed, fetched>>

\* A call of query_database.
Query ==
    /\ \E user_query \in Queries, db \in DbOutcomes, llm \in QueryLlmOutcomes :
          LET r == QueryDatabase(store, user_query, db, llm)
          IN  /\ leaked' = Leave(leaked, "query", r.open)
              /\ last' =
                      [op        |-> "query",
                       query     |-> user_query,
                       dbOutcome |-> db,
                       sqlFailed |-> db = "ok"
                                       /\ ExecuteSelect(store, Split(Lower(user_query))).exc,
                       llmFailed |-> r.llmCalled /\ llm.status = "fail",
                       raised    |-> r.raised,
                       value     |-> r.value,
                       llmCalled |-> r.llmCalled,
                       context   |-> r.context]
    /\ UNCHANGED <<store, pc, srcIdx, articles, artIdx, cycles,
                   page, extracted, feed, fetched>>

NextQuery == SaveStep \/ Query

SpecQuery == Init /\ [][NextQuery]_vars

----------------------------------------------------------------------------
(* Specification of the four store operations and their connections *)

\* A construction of the analyzer calling init_database.
InitDatabaseStep ==
    /\ \E db \in DbOutcomes :
          LET r == InitDatabase(db)
          IN  /\ leaked' = Leave(leaked, "init", r.open)
              /\ last' = [op |-> "init", dbOutcome |-> db, raised |-> r.raised]
    /\ UNCHANGED <<store, pc, srcIdx, articles, artIdx, cycles,
                   page, extracted, feed, fetched>>

\* A call of save_article_to_db, the database working or failing.
SaveCall ==
    /\ \E article \in StoredArticles, llm \in LlmOutcomes, db \in DbOutcomes :
          LET a == AnalyzeArticleWithLlm(article, llm)
              r == SaveArticleToDb(store, article, a.analysis, db)
          IN  /\ store' = r.store
              /\ leaked' = Leave(leaked, "save", r.open)
              /\ last' = [op |-> "save", dbOutcome |-> db, raised |-> r.raised,
                          committed |-> r.committed]
    /\ UNCHANGED <<pc, srcIdx, articles, artIdx, cycles,
                   page, extracted, feed, fetched>>

\* A call of get_database_stats.
StatsStep ==
    /\ \E db \in DbOutcomes :
          LET r == GetDatabaseStats(store, db)
          IN  /\ leaked' = Leave(leaked, "stats", r.open)
              /\ last' = [op |-> "stats", dbOutcome |-> db, raised |-> r.raised,
                          stats |-> r.stats]
    /\ UNCHANGED <<store, pc, srcIdx, articles, artIdx, cycles,
                   page, extracted, feed, fetched>>

\* The interpreter finalizes the connection objects that are no longer
\* referenced, at a moment of its choosing, which closes them.
Collect ==
    /\ leaked # {}
    /\ leaked' = {}
    /\ UNCHANGED <<store, pc, srcIdx, articles, artIdx, cycles, last,
                   page, extracted, feed, fetched>>

NextStore == Query \/ StatsStep \/ InitDatabaseStep \/ SaveCall \/ Collect

SpecStore == Init /\ [][NextStore]_vars

----------------------------------------------------------------------------
(* Properties of the store and the pipeline, checked under Spec *)

\* C1: news_articles holds at most one row per URL at every moment of any
\* interleaving of the two threads' cycles, and a save that commits for a URL
\* leaves exactly one row for it, carrying the saved title, content and
\* analysis, without adding a row when the URL was already stored.
C1_UpsertByUrl ==
    /\ \A r \in BagToSet(store) : CountUrl(store, r.url) <= 1
    /\ (last.op = "article" /\ last.committed) =>
          /\ CountUrl(store, last.url) = 1
          /\ \A r \in RowsWithUrl(store, last.url) :
                /\ r.title = last.article.title
                /\ r.content = last.article.content
                /\ r.analysis_raw = JsonDumps(last.analysis)
          /\ BagCardinality(store) =
                last.rowsBefore + (IF last.before > 0 THEN 0 ELSE 1)

\* A save of an already stored URL committed while the other thread was in
\* the middle of its own cycle.
C1_Witness ==
    /\ last.op = "article"
    /\ last.committed
    /\ last.before = 1
    /\ \E t \in Threads : t # last.thread /\ pc[t] \in {"fetch", "article"}

\* C5: a cycle never ends by raising, whatever fails for a source or an
\* article (the storage failing to open included).
C5_CycleNeverRaises == \A t \in Threads : pc[t] # "raised"

\* C8: an article with empty content is neither sent to the LLM nor saved,
\* and no row of the store has empty content.
C8_EmptyContentSkipped ==
    /\ (last.op = "article" /\ last.emptyContent) =>
          /\ ~last.llmCalled
          /\ ~last.saveCalled
          /\ CountUrl(store, last.url) = last.before
          /\ BagCardinality(store) = last.rowsBefore
    /\ \A r \in BagToSet(store) : r.content # EmptyText

\* An article with empty content was passed over and the cycle went on.
C8_Witness ==
    /\ last.op = "article"
    /\ last.emptyContent
    /\ pc[last.thread] \in {"fetch", "article", "end"}

\* The text "error": of a serialized analysis that carries the error flag.
ErrorFlag == <<"\"">> \o K_error \o <<"\"", ":">>

\* C9: when the LLM request fails for an article with content, the analyzer
\* returns an error-flagged analysis instead of raising, and, the store
\* working, the article is saved as one row whose analysis_raw carries the
\* error flag and the loop moves to the next article.
C9_LlmFailurePersisted ==
    (last.op = "article" /\ last.llmFailed) =>
        /\ ~last.emptyContent
        /\ last.saveCalled
        /\ last.errorFlagged
        /\ (last.dbOutcome = "ok") =>
              /\ ~last.raised
              /\ last.committed
              /\ CountUrl(store, last.url) = 1
              /\ \A r \in RowsWithUrl(store, last.url) :
                    Contains(r.analysis_raw, ErrorFlag)
              /\ pc[last.thread] \in {"fetch", "article", "end"}
              /\ (pc[last.thread] = "article" =>
                    artIdx[last.thread] = last.index + 1)

\* An article whose LLM request failed was saved.
C9_Witness ==
    /\ last.op = "article"
    /\ last.llmFailed
    /\ last.committed
    /\ \E r \in RowsWithUrl(store, last.url) : Contains(r.analysis_raw, ErrorFlag)

----------------------------------------------------------------------------
(* Properties of the query engine, checked under SpecQuery *)

\* The matching the query engine is to perform: every term of the lower-cased
\* query occurs in the title, the content or the analysis of the row.
RowMatches(r, user_query) ==
    LET terms == Split(Lower(user_query))
    IN  \A k \in 1..Len(terms) :
           \/ Contains(Lower(r.title), terms[k])
           \/ Contains(Lower(r.content), terms[k])
           \/ Contains(Lower(r.analysis_raw), terms[k])

MatchingUrls(st, user_query) ==
    {r.url : r \in {x \in BagToSet(st) : RowMatches(x, user_query)}}

\* C2: a query that matches no stored article returns the fixed message and
\* calls no LLM.
C2_NoMatchGivesFixedMessage ==
    (last.op = "query" /\ last.dbOutcome = "ok"
        /\ Split(Lower(last.query)) # << >>
        /\ MatchingUrls(store, last.query) = {}) =>
        /\ ~last.raised
        /\ last.value = FString(NoArticlesMsg, "")
        /\ ~last.llmCalled

\* C3: the articles passed to the LLM are exactly the stored articles every
\* term of the query occurs in; "bitcoin etf" selects the article whose title
\* contains "Bitcoin" and whose content contains "ETF".
C3_SelectsMatchingArticles ==
    (last.op = "query" /\ last.dbOutcome = "ok"
        /\ Split(Lower(last.query)) # << >>) =>
        /\ {last.context[i].url : i \in 1..Len(last.context)}
              = MatchingUrls(store, last.query)
        /\ (MatchingUrls(store, last.query) # {} => last.llmCalled)

\* C4: query_database returns a text and never raises: on every failure of
\* the database open, of the SQL execution or of the LLM call a message that
\* begins with the error prefix, and without a failure the fixed message when
\* nothing matches and the LLM's answer otherwise.
C4_QueryNeverRaises ==
    (last.op = "query") =>
        /\ ~last.raised
        /\ IF last.dbOutcome # "ok" \/ last.sqlFailed \/ last.llmFailed
           THEN last.value.prefix = ErrorPrefix
           ELSE IF last.context = << >>
           THEN last.value = FString(NoArticlesMsg, "") /\ ~last.llmCalled
           ELSE last.llmCalled /\ last.value.prefix = ""

\* A query whose SQL statement failed on a store with a row every term of
\* the query occurs in returned the error message.
C4_Witness ==
    /\ last.op = "query"
    /\ last.sqlFailed
    /\ MatchingUrls(store, last.query) # {}
    /\ Split(Lower(last.query)) # << >>
    /\ ~last.raised
    /\ last.value = FString(ErrorPrefix, "no such column: analysis")

----------------------------------------------------------------------------
(* Properties of the feed fetcher, checked under SpecFetch *)

Considered(fd) == 1..Min(Len(fd.entries), EntryLimit)

WellFormed(entry) == entry.hasTitle /\ entry.hasLink

FetchFailed(fd) == ~fd.ok \/ \E i \in Considered(fd) : ~WellFormed(fd.entries[i])

\* The number of entries ahead of the first failure.
GoodPrefixLen(fd) ==
    IF ~fd.ok THEN 0
    ELSE CHOOSE k \in 0..Min(Len(fd.entries), EntryLimit) :
            /\ \A i \in 1..k : WellFormed(fd.entries[i])
            /\ k = Min(Len(fd.entries), EntryLimit) \/ ~WellFormed(fd.entries[k + 1])

FromEntries(arts, fd, source_name) ==
    \A i \in 1..Len(arts) :
        /\ i <= Len(fd.entries)
        /\ WellFormed(fd.entries[i])
        /\ arts[i].title = fd.entries[i].title
        /\ arts[i].url = fd.entries[i].link
        /\ arts[i].source = source_name

\* C6 as stated: the fetcher never raises and returns an empty sequence
\* whenever a failure occurs while fetching the source.
C6_EmptyOnFailure ==
    (fetched.done /\ FetchFailed(feed)) =>
        /\ ~fetched.result.raised
        /\ fetched.result.articles = << >>

\* C6 as amended: the fetcher never raises, and on a failure it returns the
\* articles of the entries processed before the failure (none when the feed
\* itself or its first entry fails).
C6_PrefixOnFailure ==
    fetched.done =>
        /\ ~fetched.result.raised
        /\ FetchFailed(feed) =>
              /\ Len(fetched.result.articles) = GoodPrefixLen(feed)
              /\ Len(fetched.result.articles) < Min(Len(feed.entries), EntryLimit)
                    \/ ~feed.ok
              /\ FromEntries(fetched.result.articles, feed, fetched.source)

\* A failure at the third entry returned the two articles before it.
C6_Witness ==
    /\ fetched.done
    /\ FetchFailed(feed)
    /\ Len(fetched.result.articles) = 2

\* C7 as stated: a feed of N entries gives exactly the first min(N, 10)
\* entries, each with title and URL.
C7_ExactlyMinOfNAndTen ==
    (fetched.done /\ feed.ok) =>
        /\ Len(fetched.result.articles) = Min(Len(feed.entries), EntryLimit)
        /\ FromEntries(fetched.result.articles, feed, fetched.source)

\* C7 as amended: a feed of N entries gives the first k entries in feed
\* order, each with title and URL, where k = min(N, 10) when each of the
\* first min(N, 10) entries has a title and a link, and otherwise k is the
\* number of entries before the first one that lacks either.
C7_FirstEntriesUpToTen ==
    (fetched.done /\ feed.ok) =>
        /\ Len(fetched.result.articles) <= EntryLimit
        /\ (\A i \in Considered(feed) : WellFormed(feed.entries[i])) =>
              Len(fetched.result.articles) = Min(Len(feed.entries), EntryLimit)
        /\ Len(fetched.result.articles) = GoodPrefixLen(feed)
        /\ FromEntries(fetched.result.articles, feed, fetched.source)

\* A feed of more than ten well-formed entries gave ten articles.
C7_Witness ==
    /\ fetched.done
    /\ feed.ok
    /\ Len(feed.entries) > EntryLimit
    /\ Len(fetched.result.articles) = EntryLimit

----------------------------------------------------------------------------
(* Properties of the content extractor, checked under SpecExtract *)

Matched(resp) == {i \in 1..Len(Selectors) : resp.elems[i] # "none"}

MatchedWithText(resp) ==
    {i \in 1..Len(Selectors) : resp.elems[i] \notin {"none", "empty"}}

Lowest(S) == CHOOSE i \in S : \A j \in S : i <= j

Prefix(text, n) == [i \in 1..Min(Len(text), n) |-> text[i]]

ElementText(resp, i) == TextOfKind(resp.elems[i], SelectorChar[i])

RECURSIVE ElementTexts(_, _)
ElementTexts(resp, i) ==
    IF i > Len(Selectors) THEN EmptyText
    ELSE (IF resp.elems[i] = "none" THEN EmptyText ELSE ElementText(resp, i))
         \o ElementTexts(resp, i + 1)

\* The text of the page outside script, style, nav, footer and header.
PageText(resp) == ElementTexts(resp, 1) \o TextOfKind(resp.rest, RestChar)

\* C10 as stated: the result is the text of the first selector, in priority
\* order, whose match has text; the whole-page text only when no selector
\* yields text; at most 4000 characters.
C10_FirstSelectorWithText ==
    (extracted.done /\ page.status = "ok") =>
        /\ Len(extracted.content) <= MaxContentLen
        /\ extracted.content =
              IF MatchedWithText(page) # {}
              THEN Prefix(ElementText(page, Lowest(MatchedWithText(page))),
                          MaxContentLen)
              ELSE Prefix(PageText(page), MaxContentLen)

\* C10 as amended: the result is the text of the first selector, in priority
\* order, that matches an element; when that text is empty, or no selector
\* matches, it is the whole-page text; at most 4000 characters.
C10_FirstMatchingSelector ==
    extracted.done =>
        /\ Len(extracted.content) <= MaxContentLen
        /\ page.status = "ok" =>
              extracted.content =
                 IF Matched(page) # {} /\ page.elems[Lowest(Matched(page))] # "empty"
                 THEN Prefix(ElementText(page, Lowest(Matched(page))), MaxContentLen)
                 ELSE Prefix(PageText(page), MaxContentLen)

\* The first matching selector had no text, a later one had, and the result
\* was the text of the whole page.
C10_Witness ==
    /\ extracted.done
    /\ page.status = "ok"
    /\ page.elems[1] = "empty"
    /\ page.elems[4] = "short"
    /\ page.rest = "short"
    /\ extracted.content = PageText(page)

----------------------------------------------------------------------------
(* Properties of the connections, checked under SpecStore *)

\* C11: init_database, save_article_to_db, query_database and
\* get_database_stats close the connection they opened before they return or
\* raise, so no finished operation leaves a connection open.
C11_ConnectionsClosed == leaked = {}

====
